---- MODULE Spec2Model ----
(***************************************************************************)
(* streamlit_app.py: one run of the analysis script over an uploaded file. *)
(*                                                                         *)
(* Text is modelled as a sequence of one-character strings, so that        *)
(* lower-casing, substring search, splitting and number parsing are        *)
(* computed rather than assumed.  Times are held in tenths of a second     *)
(* (a float of the program with one decimal digit); the slider bounds and  *)
(* the step table are whole seconds, as int() makes them in the program.   *)
(* An optional value (None in the program) is the empty sequence, a        *)
(* present value v is <<v>>.                                               *)
(***************************************************************************)
EXTENDS Integers, Sequences, FiniteSets, TLC

VARIABLES
    pc,               \* position of the script run
    uploaded_file,    \* the upload: extension, decoder outcome, table content
    widgets,          \* widget state of the session: slider, work/rest text
    df,               \* result of load_file: <<>> (None) or <<table>>
    column_map,       \* detect_columns result: role -> column name
    time_column_name, \* selected time column
    time_column,      \* the time axis, tenths of a second, row order
    min_time,         \* slider result, whole seconds
    max_time,
    df_filtered,      \* rows kept by the window and the columns of the table
    filtered_columns, \* role -> name of the appended filtered column
    role_idx,         \* position of the filter loop in default_cutoff
    work_seconds,     \* time_to_seconds(work_time): <<>> or <<n>>
    rest_seconds,
    steps,            \* the step table
    current_time,     \* loop variable of the segmentation
    step_counter,
    errors,           \* st.error messages shown, in order
    csv               \* <<>> or <<exported table>> offered for download

vars == <<pc, uploaded_file, widgets, df, column_map, time_column_name,
          time_column, min_time, max_time, df_filtered, filtered_columns,
          role_idx, work_seconds, rest_seconds, steps, current_time,
          step_counter, errors, csv>>

-----------------------------------------------------------------------------
(* Bounds of the explored inputs.                                          *)

\* longest column list of the column-name inputs
MaxCols == 3
\* rows of the longer time series of the time-axis and filter inputs
MaxRows == 10
\* last second of the series the segmentation inputs run over
LongEnd == 20
\* rows of the step table that are followed; a table of a run with positive
\* durations stays below it (LoopEndsWithinBound)
MaxSteps == 12
\* seconds below the window start down to which current_time is followed
MaxDrift == 120

-----------------------------------------------------------------------------
(* Text.                                                                   *)

upper_to_lower ==
    ("A" :> "a") @@ ("B" :> "b") @@ ("C" :> "c") @@ ("D" :> "d") @@
    ("E" :> "e") @@ ("F" :> "f") @@ ("G" :> "g") @@ ("H" :> "h") @@
    ("I" :> "i") @@ ("J" :> "j") @@ ("K" :> "k") @@ ("L" :> "l") @@
    ("M" :> "m") @@ ("N" :> "n") @@ ("O" :> "o") @@ ("P" :> "p") @@
    ("Q" :> "q") @@ ("R" :> "r") @@ ("S" :> "s") @@ ("T" :> "t") @@
    ("U" :> "u") @@ ("V" :> "v") @@ ("W" :> "w") @@ ("X" :> "x") @@
    ("Y" :> "y") @@ ("Z" :> "z")

\* str.lower()
lower(s) ==
    [i \in 1..Len(s) |->
        IF s[i] \in DOMAIN upper_to_lower THEN upper_to_lower[s[i]] ELSE s[i]]

\* the Python test  sub in s
contains(sub, s) ==
    \E i \in 0..(Len(s) - Len(sub)) : SubSeq(s, i + 1, i + Len(sub)) = sub

digit_value ==
    ("0" :> 0) @@ ("1" :> 1) @@ ("2" :> 2) @@ ("3" :> 3) @@ ("4" :> 4) @@
    ("5" :> 5) @@ ("6" :> 6) @@ ("7" :> 7) @@ ("8" :> 8) @@ ("9" :> 9)

is_digit(c) == c \in DOMAIN digit_value

RECURSIVE digits_value(_)
digits_value(s) ==
    IF s = <<>> THEN 0
    ELSE 10 * digits_value(SubSeq(s, 1, Len(s) - 1)) + digit_value[s[Len(s)]]

\* int(text): an optional sign and at least one digit, else ValueError (<<>>)
int_of(s) ==
    LET signed == s # <<>> /\ s[1] \in {"-", "+"}
        body   == IF signed THEN Tail(s) ELSE s
    IN  IF body = <<>> \/ \E i \in 1..Len(body) : ~is_digit(body[i])
        THEN <<>>
        ELSE IF signed /\ s[1] = "-" THEN << -digits_value(body) >>
             ELSE << digits_value(body) >>

\* str.split(sep) for a one-character separator
RECURSIVE split(_, _)
split(s, sep) ==
    IF \A i \in 1..Len(s) : s[i] # sep THEN <<s>>
    ELSE LET k == CHOOSE i \in 1..Len(s) :
                    s[i] = sep /\ \A j \in 1..(i - 1) : s[j] # sep
         IN  <<SubSeq(s, 1, k - 1)>> \o split(SubSeq(s, k + 1, Len(s)), sep)

Min(a, b) == IF a <= b THEN a ELSE b

SeqMin(s) == CHOOSE m \in {s[i] : i \in 1..Len(s)} :
                \A i \in 1..Len(s) : m <= s[i]
SeqMax(s) == CHOOSE m \in {s[i] : i \in 1..Len(s)} :
                \A i \in 1..Len(s) : m >= s[i]

\* int(x) of a float held in tenths: truncation toward zero, whole seconds
int_trunc(x) == IF x >= 0 THEN x \div 10 ELSE -((-x) \div 10)

-----------------------------------------------------------------------------
(* Names the program searches for.                                         *)

c_saturated_hemoglobin_percent ==
    <<"s", "a", "t", "u", "r", "a", "t", "e", "d", "_", "h", "e", "m", "o",
      "g", "l", "o", "b", "i", "n", "_", "p", "e", "r", "c", "e", "n", "t">>
c_SmO2 == <<"S", "m", "O", "2">>
c_total_hemoglobin_con ==
    <<"t", "o", "t", "a", "l", "_", "h", "e", "m", "o", "g", "l", "o", "b",
      "i", "n", "_", "c", "o", "n">>
c_THb == <<"T", "H", "b">>
c_power == <<"p", "o", "w", "e", "r">>
c_heart_rate == <<"h", "e", "a", "r", "t", "_", "r", "a", "t", "e">>
c_hr == <<"h", "r">>
s_time == <<"t", "i", "m", "e">>
s_timestamp == <<"t", "i", "m", "e", "s", "t", "a", "m", "p">>
s_filtered == <<"_", "f", "i", "l", "t", "e", "r", "e", "d">>

\* keys of known_columns and of default_cutoff, in their order
Roles == <<"SmO2", "THb", "Power", "HR">>
RoleSet == {Roles[i] : i \in 1..Len(Roles)}

known_columns ==
    [SmO2  |-> <<c_saturated_hemoglobin_percent, c_SmO2>>,
     THb   |-> <<c_total_hemoglobin_con, c_THb>>,
     Power |-> <<c_power>>,
     HR    |-> <<c_heart_rate, c_hr>>]

-----------------------------------------------------------------------------
(* detect_columns.                                                         *)

\* the column name compared as written, not lower-cased
matched_columns_as_written(columns, name) ==
    SelectSeq(columns, LAMBDA col : contains(lower(name), col))

\* [col for col in df.columns if name.lower() in col.lower()]
matched_columns(columns, name) ==
    SelectSeq(columns, LAMBDA col : contains(lower(name), lower(col)))

\* the inner loop over possible_names: <<>> when no name matches, else the
\* first match of the first name that has one
RECURSIVE first_candidate_match(_, _, _)
first_candidate_match(columns, possible_names, k) ==
    IF k > Len(possible_names) THEN <<>>
    ELSE LET m == matched_columns(columns, possible_names[k])
         IN  IF m # <<>> THEN <<m[1]>>
             ELSE first_candidate_match(columns, possible_names, k + 1)

detect_columns(columns) ==
    LET hit(key) == first_candidate_match(columns, known_columns[key], 1)
    IN  [key \in {r \in RoleSet : hit(r) # <<>>} |-> hit(key)[1]]

-----------------------------------------------------------------------------
(* Time column selection.                                                  *)

time_columns(columns) ==
    SelectSeq(columns, LAMBDA col :
        contains(s_time, lower(col)) \/ contains(s_timestamp, lower(col)))

\* the first detected column, whatever its name
select_first_time_column(tcs) == tcs[1]

\* lines 88-91: an exact "timestamp" first, else the first detected column
select_time_column(tcs) ==
    LET exact == SelectSeq(tcs, LAMBDA col : lower(col) = s_timestamp)
    IN  IF exact # <<>> THEN exact[1] ELSE tcs[1]

-----------------------------------------------------------------------------
(* load_file.                                                              *)

\* load_file where a failed decode yields the partial table
load_file_keeps_partial(file) ==
    IF file.ext = "csv" /\ file.decode = "exception"
    THEN [df |-> <<file.table>>, err |-> <<>>]
    ELSE IF file.ext \in {"csv", "fit"} /\ file.decode = "ok"
    THEN [df |-> <<file.table>>, err |-> <<>>]
    ELSE [df |-> <<>>, err |-> <<"load_failed">>]

\* lines 16-41: the table, or None after st.error
load_file(file) ==
    IF file.ext = "csv"
    THEN IF file.decode = "exception"
         THEN [df |-> <<>>, err |-> <<"csv_error">>]
         ELSE [df |-> <<file.table>>, err |-> <<>>]
    ELSE IF file.ext = "fit"
    THEN IF file.decode = "exception"
         THEN [df |-> <<>>, err |-> <<"fit_error">>]
         ELSE IF file.decode = "empty"
         THEN [df |-> <<>>, err |-> <<"fit_no_data">>]
         ELSE [df |-> <<file.table>>, err |-> <<>>]
    ELSE [df |-> <<>>, err |-> <<"unsupported_format">>]

-----------------------------------------------------------------------------
(* Time axis.                                                              *)

is_string_dtype(dtype) == dtype = "object"
is_numeric_dtype(dtype) == dtype \in {"int64", "float64"}

iso_prefix == <<"2", "0", "2", "4", "-", "0", "1", "-">>

two_digits(s, i) == 10 * digit_value[s[i]] + digit_value[s[i + 1]]

\* pd.to_datetime of one cell written 2024-01-DDThh:mm:ss or
\* 2024-01-DDThh:mm:ss.f : <<tenths of a second since 2024-01-01T00:00:00>>,
\* or <<>> when the text is no date-time
parse_datetime(s) ==
    LET shape ==
            /\ Len(s) \in {19, 21}
            /\ SubSeq(s, 1, 8) = iso_prefix
            /\ \A i \in {9, 10, 12, 13, 15, 16, 18, 19} : is_digit(s[i])
            /\ s[11] = "T" /\ s[14] = ":" /\ s[17] = ":"
            /\ Len(s) = 21 => (s[20] = "." /\ is_digit(s[21]))
    IN  IF ~shape THEN <<>>
        ELSE LET day  == two_digits(s, 9)
                 hour == two_digits(s, 12)
                 mn   == two_digits(s, 15)
                 sec  == two_digits(s, 18)
                 frac == IF Len(s) = 21 THEN digit_value[s[21]] ELSE 0
             IN  IF day \in 1..31 /\ hour < 24 /\ mn < 60 /\ sec < 60
                 THEN << (((day - 1) * 24 + hour) * 60 + mn) * 600
                         + sec * 10 + frac >>
                 ELSE <<>>

\* pd.to_datetime(column): raises (<<>>) when a cell is no date-time
to_datetime(cells) ==
    IF \E i \in 1..Len(cells) : parse_datetime(cells[i]) = <<>>
    THEN <<>>
    ELSE << [i \in 1..Len(cells) |-> parse_datetime(cells[i])[1]] >>

\* elapsed time counted from the first row instead of the earliest one
elapsed_from_first_row(instants) ==
    [i \in 1..Len(instants) |-> instants[i] - instants[1]]

\* (time_column - time_column.min()).dt.total_seconds(), in tenths
elapsed_seconds(instants) ==
    [i \in 1..Len(instants) |-> instants[i] - SeqMin(instants)]

\* lines 97-107: [axis, err]; the axis is <<>> when the script stops
normalize_time(dtype, cells) ==
    IF is_string_dtype(dtype)
    THEN LET parsed == to_datetime(cells)
         IN  IF parsed = <<>>
             THEN [axis |-> <<>>, err |-> <<"time_parse_error">>]
             ELSE [axis |-> <<elapsed_seconds(parsed[1])>>, err |-> <<>>]
    ELSE IF ~is_numeric_dtype(dtype)
    THEN [axis |-> <<>>, err |-> <<"time_not_numeric">>]
    ELSE [axis |-> <<cells>>, err |-> <<>>]

-----------------------------------------------------------------------------
(* Window.                                                                 *)

\* the default value of the slider: (int(min), int(max))
slider_default(axis) == <<int_trunc(SeqMin(axis)), int_trunc(SeqMax(axis))>>

\* lines 110-115: the pair the session holds when it lies in the slider's
\* range, else the default
slider(axis, choice) ==
    LET d == slider_default(axis)
    IN  IF choice # <<>> /\ d[1] <= choice[1] /\ choice[1] <= choice[2]
           /\ choice[2] <= d[2]
        THEN choice ELSE d

\* line 118: positions of the rows with min_time <= time <= max_time
window_rows(axis, lo, hi) ==
    SelectSeq([i \in 1..Len(axis) |-> i],
              LAMBDA i : axis[i] >= lo * 10 /\ axis[i] <= hi * 10)

-----------------------------------------------------------------------------
(* Filter.                                                                 *)

order == 2
\* filtfilt pads with 3 * max(len(a), len(b)) samples, len = order + 1
padlen == 3 * (order + 1)

\* lines 9-13 on a column of n rows: <<length of the result>>, or <<>> when
\* butter/filtfilt raise (text data, or no more than padlen samples)
butterworth_filter(dtype, n) ==
    IF ~is_numeric_dtype(dtype) \/ n <= padlen THEN <<>> ELSE <<n>>

-----------------------------------------------------------------------------
(* Work and rest durations.                                                *)

\* lines 136-142: <<seconds>>, or <<>> (None) after st.error
time_to_seconds(time_str) ==
    LET parts == split(time_str, ":")
    IN  IF Len(parts) # 2 THEN <<>>
        ELSE IF int_of(parts[1]) = <<>> \/ int_of(parts[2]) = <<>> THEN <<>>
        ELSE << int_of(parts[1])[1] * 60 + int_of(parts[2])[1] >>

\* truth value of an optional integer: None and 0 are false
truthy(v) == v # <<>> /\ v[1] # 0

\* an end that is not clipped to max_time
unclamped_end(t, duration, limit) == t + duration

\* min(current_time + duration, max_time)
clamped_end(t, duration, limit) == Min(t + duration, limit)

\* a rest step that lasts as long as the work step
rest_like_work(t, work, rest, limit) == clamped_end(t, work, limit)

\* line 157
rest_end_of(t, work, rest, limit) == clamped_end(t, rest, limit)

\* steps.append(entry), followed for the first MaxSteps rows of the table
append_step(st, entry) == IF Len(st) < MaxSteps THEN Append(st, entry) ELSE st

\* step_counter += 1, followed as far as the table is
count_step(counter) == IF counter <= MaxSteps THEN counter + 1 ELSE counter

\* lines 152-155: the work step of a pass of the while body
work_part(st, cur, counter, work, limit) ==
    LET work_end == clamped_end(cur, work, limit)
    IN  [steps |-> append_step(st, [Step |-> counter, Type |-> "Trabalho",
                                    Start |-> cur, End |-> work_end]),
         current_time |-> work_end,
         step_counter |-> count_step(counter)]

\* lines 157-161: the rest step of a pass of the while body
rest_part(st, cur, counter, work, rest, limit) ==
    LET rest_end == rest_end_of(cur, work, rest, limit)
    IN  IF cur < limit
        THEN [steps |-> append_step(st, [Step |-> counter, Type |-> "Descanso",
                                         Start |-> cur, End |-> rest_end]),
              current_time |-> rest_end,
              step_counter |-> count_step(counter)]
        ELSE [steps |-> st, current_time |-> cur, step_counter |-> counter]

-----------------------------------------------------------------------------
(* Uploads and widget states a run is started with.                        *)

n_time == <<"t", "i", "m", "e">>
n_Timestamp == <<"T", "i", "m", "e", "s", "t", "a", "m", "p">>
n_elapsed_time == <<"e", "l", "a", "p", "s", "e", "d", "_", "t", "i", "m", "e">>
n_SmO2 == <<"S", "m", "O", "2">>
n_smo2_raw == <<"s", "m", "o", "2", "_", "r", "a", "w">>
n_THb == <<"T", "H", "b">>
n_Power == <<"P", "o", "w", "e", "r">>
n_heart_rate == <<"h", "e", "a", "r", "t", "_", "r", "a", "t", "e">>
n_HR == <<"H", "R">>
n_chrono == <<"c", "h", "r", "o", "n", "o">>
n_lap == <<"l", "a", "p">>

NamePool == {n_time, n_Timestamp, n_elapsed_time, n_SmO2, n_smo2_raw, n_THb,
             n_Power, n_heart_rate, n_HR, n_chrono, n_lap}

d_0200 == <<"0", "2", ":", "0", "0">>
d_0100 == <<"0", "1", ":", "0", "0">>
d_0005 == <<"0", "0", ":", "0", "5">>
d_0003 == <<"0", "0", ":", "0", "3">>
d_0000 == <<"0", "0", ":", "0", "0">>
d_neg == <<"-", "1", ":", "0", "0">>
d_abc == <<"a", "b", "c">>
d_123 == <<"1", ":", "2", ":", "3">>

DurationStrings == {d_0200, d_0100, d_0005, d_0003, d_0000, d_neg, d_abc,
                    d_123}

t_bad == <<"n", "/", "a">>

Range(s) == {s[i] : i \in 1..Len(s)}

\* ordered lists of distinct column names
ColumnLists ==
    {cs \in UNION {[1..n -> NamePool] : n \in 1..MaxCols} :
        \A i, j \in 1..Len(cs) : i # j => cs[i] # cs[j]}

digit_char == <<"0", "1", "2", "3", "4", "5", "6", "7", "8", "9">>
two_chars(n) == <<digit_char[(n \div 10) + 1], digit_char[(n % 10) + 1]>>

\* the text of an instant (tenths of a second since 2024-01-01T00:00:00),
\* with or without the digit of the tenths
format_datetime(t, tenths) ==
    LET whole == t \div 10
        base  == iso_prefix \o two_chars(1 + whole \div 86400) \o <<"T">>
                 \o two_chars((whole \div 3600) % 24) \o <<":">>
                 \o two_chars((whole \div 60) % 60) \o <<":">>
                 \o two_chars(whole % 60)
    IN  IF tenths THEN base \o <<".", digit_char[(t % 10) + 1]>> ELSE base

\* 2024-01-02T00:00:00, the instant the recordings are placed at
RecordingStart == 24 * 36000

\* n instants, step tenths apart, in rising or falling row order
series(n, start, step, rising) ==
    [i \in 1..n |-> start + (IF rising THEN i - 1 ELSE n - i) * step]

\* the cells of a column that holds the series in the given dtype; the
\* date-times of one column are all written in the same format
cells_of(dtype, ticks, garbled) ==
    IF dtype = "object"
    THEN [i \in 1..Len(ticks) |->
            IF garbled /\ i = Len(ticks) THEN t_bad
            ELSE format_datetime(RecordingStart + ticks[i],
                                 \E j \in 1..Len(ticks) : ticks[j] % 10 # 0)]
    ELSE IF dtype = "datetime64"
    THEN [i \in 1..Len(ticks) |-> RecordingStart + ticks[i]]
    ELSE ticks

Table(columns, dtypes, ticks, garbled) ==
    [columns |-> columns,
     dtype   |-> dtypes,
     nrows   |-> Len(ticks),
     cells   |-> [c \in Range(columns) |-> cells_of(dtypes[c], ticks, garbled)]]

Upload(ext, decode, columns, dtypes, ticks, garbled) ==
    [ext |-> ext, decode |-> decode, recorded |-> ticks,
     table |-> Table(columns, dtypes, ticks, garbled)]

\* the widgets as a first run shows them: full range, "02:00" and "01:00"
DefaultWidgets == [slider |-> <<>>, work_time |-> d_0200, rest_time |-> d_0100]

Unset ==
    /\ pc = "load"
    /\ df = <<>>
    /\ column_map = <<>>
    /\ time_column_name = <<>>
    /\ time_column = <<>>
    /\ min_time = 0
    /\ max_time = 0
    /\ df_filtered = [rows |-> <<>>, columns |-> <<>>]
    /\ filtered_columns = <<>>
    /\ role_idx = 1
    /\ work_seconds = <<>>
    /\ rest_seconds = <<>>
    /\ steps = <<>>
    /\ current_time = 0
    /\ step_counter = 1
    /\ errors = <<>>
    /\ csv = <<>>

\* any column names, over a short numeric recording
InitColumns ==
    /\ \E cs \in ColumnLists :
         uploaded_file = Upload("csv", "ok", cs, [c \in Range(cs) |-> "float64"],
                                series(3, 0, 10, TRUE), FALSE)
    /\ widgets = DefaultWidgets
    /\ Unset

\* any decoder outcome and any kind of time column
InitTimeAxis ==
    /\ \E fk \in {<<"csv", "ok">>, <<"csv", "exception">>, <<"fit", "ok">>,
                  <<"fit", "exception">>, <<"fit", "empty">>, <<"txt", "ok">>},
          dt \in {"float64", "object", "datetime64"}, garbled \in BOOLEAN,
          n \in {3, MaxRows}, start \in {-15, 0, 5}, step \in {5, 10},
          rising \in BOOLEAN :
         /\ garbled => dt = "object"
         /\ uploaded_file = Upload(fk[1], fk[2], <<n_time>>, (n_time :> dt),
                                   series(n, start, step, rising), garbled)
    /\ widgets = DefaultWidgets
    /\ Unset

\* a recording of LongEnd seconds with any window, and work and rest texts
\* from the given sets
SegmentInputs(work_texts, rest_texts) ==
    /\ uploaded_file = Upload("csv", "ok", <<n_time>>, (n_time :> "float64"),
                              series(LongEnd + 1, 0, 10, TRUE), FALSE)
    /\ \E a \in 0..LongEnd, b \in 0..LongEnd, whole \in BOOLEAN,
          w \in work_texts, r \in rest_texts :
         /\ a <= b
         /\ whole => (a = 0 /\ b = 0)
         /\ widgets = [slider |-> IF whole THEN <<>> ELSE <<a, b>>,
                       work_time |-> w, rest_time |-> r]
    /\ Unset

\* any window and any work and rest text
InitSegments == SegmentInputs(DurationStrings, DurationStrings)

\* any window and any work text, the rest text left at its default "01:00"
InitWorkEdited == SegmentInputs(DurationStrings, {d_0100})

\* numeric and text channels, over a short and a long recording
InitFilters ==
    /\ \E n \in {3, MaxRows},
          dts \in [{n_SmO2, n_THb, n_Power, n_HR} -> {"float64", "object"}] :
         uploaded_file = Upload("csv", "ok",
                                <<n_time, n_SmO2, n_THb, n_Power, n_HR>>,
                                (n_time :> "float64") @@ dts,
                                series(n, 0, 10, TRUE), FALSE)
    /\ widgets = DefaultWidgets
    /\ Unset

Init == InitColumns \/ InitTimeAxis \/ InitSegments \/ InitFilters

LiveInit == InitColumns \/ InitTimeAxis \/ InitWorkEdited \/ InitFilters

-----------------------------------------------------------------------------
(* The script, top to bottom.                                              *)

\* lines 67-71
LoadFile ==
    /\ pc = "load"
    /\ LET r == load_file(uploaded_file)
       IN  /\ df' = r.df
           /\ errors' = errors \o r.err
           /\ pc' = IF r.df = <<>> THEN "stopped" ELSE "detect"
    /\ UNCHANGED <<uploaded_file, widgets, column_map, time_column_name,
                   time_column, min_time, max_time, df_filtered,
                   filtered_columns, role_idx, work_seconds, rest_seconds,
                   steps, current_time, step_counter, csv>>

\* lines 76-78
DetectColumns ==
    /\ pc = "detect"
    /\ column_map' = detect_columns(df[1].columns)
    /\ pc' = "locate"
    /\ UNCHANGED <<uploaded_file, widgets, df, time_column_name, time_column,
                   min_time, max_time, df_filtered, filtered_columns, role_idx,
                   work_seconds, rest_seconds, steps, current_time,
                   step_counter, errors, csv>>

\* lines 81-94
LocateTimeColumn ==
    /\ pc = "locate"
    /\ LET tcs == time_columns(df[1].columns)
       IN  IF tcs = <<>>
           THEN /\ errors' = Append(errors, "no_time_column")
                /\ pc' = "stopped"
                /\ UNCHANGED <<time_column_name, time_column>>
           ELSE /\ time_column_name' = select_time_column(tcs)
                /\ time_column' = df[1].cells[time_column_name']
                /\ pc' = "normalize"
                /\ UNCHANGED errors
    /\ UNCHANGED <<uploaded_file, widgets, df, column_map, min_time, max_time,
                   df_filtered, filtered_columns, role_idx, work_seconds,
                   rest_seconds, steps, current_time, step_counter, csv>>

\* lines 96-107
NormalizeTime ==
    /\ pc = "normalize"
    /\ LET r == normalize_time(df[1].dtype[time_column_name], time_column)
       IN  /\ errors' = errors \o r.err
           /\ IF r.axis = <<>>
              THEN /\ pc' = "stopped"
                   /\ UNCHANGED time_column
              ELSE /\ pc' = "slider"
                   /\ time_column' = r.axis[1]
    /\ UNCHANGED <<uploaded_file, widgets, df, column_map, time_column_name,
                   min_time, max_time, df_filtered, filtered_columns, role_idx,
                   work_seconds, rest_seconds, steps, current_time,
                   step_counter, csv>>

\* lines 110-118
SelectWindow ==
    /\ pc = "slider"
    /\ LET w == slider(time_column, widgets.slider)
       IN  /\ min_time' = w[1]
           /\ max_time' = w[2]
           /\ df_filtered' = [rows    |-> window_rows(time_column, w[1], w[2]),
                              columns |-> df[1].columns]
    /\ role_idx' = 1
    /\ filtered_columns' = <<>>
    /\ pc' = "filter"
    /\ UNCHANGED <<uploaded_file, widgets, df, column_map, time_column_name,
                   time_column, work_seconds, rest_seconds, steps,
                   current_time, step_counter, errors, csv>>

\* lines 124-129, one key of default_cutoff; an exception of the filter is
\* caught nowhere and ends the run
ApplyFilter ==
    /\ pc = "filter"
    /\ LET col_key == Roles[role_idx]
           next_pc == IF role_idx = Len(Roles) THEN "config" ELSE "filter"
       IN  IF col_key \in DOMAIN column_map
           THEN LET col_name == column_map[col_key]
                    out == butterworth_filter(df[1].dtype[col_name],
                                              Len(df_filtered.rows))
                IN  IF out = <<>>
                    THEN /\ pc' = "crashed"
                         /\ UNCHANGED <<df_filtered, filtered_columns, role_idx>>
                    ELSE /\ df_filtered' =
                              [df_filtered EXCEPT !.columns =
                                  IF (col_name \o s_filtered) \in Range(@) THEN @
                                  ELSE Append(@, col_name \o s_filtered)]
                         /\ filtered_columns' =
                              (col_key :> (col_name \o s_filtered))
                              @@ filtered_columns
                         /\ role_idx' = role_idx + 1
                         /\ pc' = next_pc
           ELSE /\ role_idx' = role_idx + 1
                /\ pc' = next_pc
                /\ UNCHANGED <<df_filtered, filtered_columns>>
    /\ UNCHANGED <<uploaded_file, widgets, df, column_map, time_column_name,
                   time_column, min_time, max_time, work_seconds, rest_seconds,
                   steps, current_time, step_counter, errors, csv>>

\* lines 133-150
ConfigureSteps ==
    /\ pc = "config"
    /\ work_seconds' = time_to_seconds(widgets.work_time)
    /\ rest_seconds' = time_to_seconds(widgets.rest_time)
    /\ errors' = errors
                 \o (IF work_seconds' = <<>> THEN <<"invalid_format">> ELSE <<>>)
                 \o (IF rest_seconds' = <<>> THEN <<"invalid_format">> ELSE <<>>)
    /\ IF truthy(work_seconds') /\ truthy(rest_seconds')
       THEN /\ steps' = <<>>
            /\ current_time' = min_time
            /\ step_counter' = 1
            /\ pc' = "loop"
       ELSE /\ pc' = "export"
            /\ UNCHANGED <<steps, current_time, step_counter>>
    /\ UNCHANGED <<uploaded_file, widgets, df, column_map, time_column_name,
                   time_column, min_time, max_time, df_filtered,
                   filtered_columns, role_idx, csv>>

\* lines 151-155: the loop test holds and the work step is appended.  A
\* run whose current_time falls ever further below the window is followed
\* down to MaxDrift seconds below min_time.
WorkStep ==
    /\ pc = "loop"
    /\ current_time < max_time
    /\ current_time >= min_time - MaxDrift
    /\ LET r == work_part(steps, current_time, step_counter, work_seconds[1],
                          max_time)
       IN  /\ steps' = r.steps
           /\ current_time' = r.current_time
           /\ step_counter' = r.step_counter
    /\ pc' = "rest"
    /\ UNCHANGED <<uploaded_file, widgets, df, column_map, time_column_name,
                   time_column, min_time, max_time, df_filtered,
                   filtered_columns, role_idx, work_seconds, rest_seconds,
                   errors, csv>>

\* lines 157-161: the rest step, appended when the window is not used up
RestStep ==
    /\ pc = "rest"
    /\ LET r == rest_part(steps, current_time, step_counter, work_seconds[1],
                          rest_seconds[1], max_time)
       IN  /\ steps' = r.steps
           /\ current_time' = r.current_time
           /\ step_counter' = r.step_counter
    /\ pc' = "loop"
    /\ UNCHANGED <<uploaded_file, widgets, df, column_map, time_column_name,
                   time_column, min_time, max_time, df_filtered,
                   filtered_columns, role_idx, work_seconds, rest_seconds,
                   errors, csv>>

\* lines 151 and 163-192: the loop is left, the table and the chart are drawn
ShowSteps ==
    /\ pc = "loop"
    /\ ~(current_time < max_time)
    /\ pc' = "export"
    /\ UNCHANGED <<uploaded_file, widgets, df, column_map, time_column_name,
                   time_column, min_time, max_time, df_filtered,
                   filtered_columns, role_idx, work_seconds, rest_seconds,
                   steps, current_time, step_counter, errors, csv>>

\* lines 194-196
Export ==
    /\ pc = "export"
    /\ csv' = <<df_filtered>>
    /\ pc' = "done"
    /\ UNCHANGED <<uploaded_file, widgets, df, column_map, time_column_name,
                   time_column, min_time, max_time, df_filtered,
                   filtered_columns, role_idx, work_seconds, rest_seconds,
                   steps, current_time, step_counter, errors>>

Next ==
    \/ LoadFile
    \/ DetectColumns
    \/ LocateTimeColumn
    \/ NormalizeTime
    \/ SelectWindow
    \/ ApplyFilter
    \/ ConfigureSteps
    \/ WorkStep
    \/ RestStep
    \/ ShowSteps
    \/ Export

Spec == Init /\ [][Next]_vars

\* the script is run to its end: a step that can be taken is taken
LiveSpec == LiveInit /\ [][Next]_vars /\ WF_vars(Next)

-----------------------------------------------------------------------------
(* Properties.                                                             *)

AfterLoad == pc \notin {"load"}
AfterLocate == pc \notin {"load", "detect", "locate"}
AfterNormalize == pc \in {"slider", "filter", "config", "loop", "rest", "export",
                          "done", "crashed"}
AfterWindow == pc \in {"filter", "config", "loop", "rest", "export", "done",
                       "crashed"}
AfterFilters == pc \in {"config", "loop", "rest", "export", "done"}
AfterConfig == pc \in {"loop", "rest", "export", "done"}
\* the while loop was entered and has been left
LoopLeft == pc \in {"export", "done"} /\ truthy(work_seconds)
            /\ truthy(rest_seconds)

PositiveDurations ==
    /\ work_seconds # <<>> /\ work_seconds[1] > 0
    /\ rest_seconds # <<>> /\ rest_seconds[1] > 0

StepType(i) == IF i % 2 = 1 THEN "Trabalho" ELSE "Descanso"
Nominal(i) == IF i % 2 = 1 THEN work_seconds[1] ELSE rest_seconds[1]

\* C1: with start < end and positive work and rest, the steps tile
\* [start, end]: the first starts at start, each next one starts where the
\* previous one ended, none is empty, the types alternate beginning with
\* Trabalho, and once the loop is left the last one ends at end.  While the
\* loop runs the steps tile [start, current_time].
C1_StepsTileTheWindow ==
    (AfterConfig /\ PositiveDurations /\ min_time < max_time) =>
        /\ pc \notin {"loop", "rest"} =>
              (steps # <<>> /\ current_time = max_time)
        /\ steps # <<>> =>
            /\ steps[1].Start = min_time
            /\ steps[Len(steps)].End = current_time
        /\ steps = <<>> => current_time = min_time
        /\ \A i \in 1..Len(steps) :
            /\ steps[i].Type = StepType(i)
            /\ steps[i].Start < steps[i].End
            /\ steps[i].End <= max_time
            /\ i > 1 => steps[i].Start = steps[i - 1].End

\* a finished table of at least three steps whose last step is clipped
C1_Witness ==
    /\ pc = "done" /\ PositiveDurations /\ min_time < max_time
    /\ Len(steps) >= 3
    /\ steps[Len(steps)].End = max_time
    /\ steps[Len(steps)].End - steps[Len(steps)].Start < Nominal(Len(steps))

BadDuration(text) ==
    LET parts == split(text, ":")
    IN  \/ Len(parts) # 2
        \/ int_of(parts[1]) = <<>>
        \/ int_of(parts[2]) = <<>>
        \/ int_of(parts[1])[1] * 60 + int_of(parts[2])[1] <= 0

\* C2: when the work or the rest text is unparseable or not positive, no
\* step is ever produced and an error is shown.
C2_BadDurationSkipsWithError ==
    (AfterConfig /\ (BadDuration(widgets.work_time)
                     \/ BadDuration(widgets.rest_time))) =>
        /\ steps = <<>>
        /\ pc \notin {"loop", "rest"}
        /\ "invalid_format" \in Range(errors)

\* C3: once the channels are filtered, the run reaches the download for
\* every work and rest text.
C3_ExportIsReached == (pc = "config") ~> (pc = "done")

FilterWouldFail(role) ==
    butterworth_filter(df[1].dtype[column_map[role]], Len(df_filtered.rows))
        = <<>>

\* C4: a filter failure skips that channel alone: the run goes on, and when
\* the filter loop is over every mapped role whose own filter does not fail
\* has its filtered column.
C4_FilterErrorsArePerChannel ==
    /\ pc # "crashed"
    /\ (AfterFilters \/ pc = "crashed") =>
          \A role \in DOMAIN column_map :
              ~FilterWouldFail(role) =>
                  /\ role \in DOMAIN filtered_columns
                  /\ filtered_columns[role] \in Range(df_filtered.columns)

IsTimeName(col) == contains(s_time, lower(col))
                   \/ contains(s_timestamp, lower(col))

LoadFails ==
    \/ uploaded_file.ext \notin {"csv", "fit"}
    \/ uploaded_file.decode = "exception"
    \/ uploaded_file.ext = "fit" /\ uploaded_file.decode = "empty"

NoTimeName == \A i \in 1..Len(uploaded_file.table.columns) :
                  ~IsTimeName(uploaded_file.table.columns[i])

TimeColumnInvalid ==
    LET dt == uploaded_file.table.dtype[time_column_name]
        cells == uploaded_file.table.cells[time_column_name]
    IN  \/ dt = "object" /\ \E i \in 1..Len(cells) : parse_datetime(cells[i]) = <<>>
        \/ dt \notin {"object", "int64", "float64"}

\* C5: when load_file fails, or no column name contains "time", or the time
\* column is neither parseable nor numeric, an error is shown and the run
\* stops: no window, no filtered channel, no step, no download.
C5_DecodeAndTimeErrorsAreTerminal ==
    LET failed == \/ LoadFails
                  \/ ~LoadFails /\ NoTimeName
                  \/ ~LoadFails /\ ~NoTimeName /\ AfterLocate
                     /\ TimeColumnInvalid
        reached == \/ LoadFails /\ AfterLoad
                   \/ ~LoadFails /\ NoTimeName /\ AfterLocate
                   \/ ~LoadFails /\ ~NoTimeName /\ AfterLocate
                      /\ TimeColumnInvalid /\ pc # "normalize"
    IN  /\ failed =>
            /\ pc \in {"load", "detect", "locate", "normalize", "stopped"}
            /\ df_filtered.rows = <<>>
            /\ filtered_columns = <<>>
            /\ steps = <<>>
            /\ csv = <<>>
        /\ reached => (pc = "stopped" /\ Len(errors) = 1)
        /\ (pc = "stopped") => failed

\* a run stopped on a time column that is a date-time object
C5_Witness ==
    /\ pc = "stopped"
    /\ errors = <<"time_not_numeric">>
    /\ csv = <<>>

FirstIndex(columns, P(_)) ==
    CHOOSE i \in 1..Len(columns) :
        P(columns[i]) /\ \A j \in 1..(i - 1) : ~P(columns[j])

\* C6 as stated: the selected time column is the first column in table
\* order whose name contains "time" or "timestamp"; with no such column the
\* run fails with the no-time-column error.
C6_FirstTimeNameIsSelected ==
    (df # <<>> /\ AfterLocate) =>
        LET cols == df[1].columns
        IN  IF \E i \in 1..Len(cols) : IsTimeName(cols[i])
            THEN time_column_name = cols[FirstIndex(cols, IsTimeName)]
            ELSE pc = "stopped" /\ errors = <<"no_time_column">>

IsExactTimestamp(col) == lower(col) = s_timestamp

\* C6 amended: the selected time column is the first column whose
\* lower-cased name is exactly "timestamp" when there is one, else the first
\* column in table order whose name contains "time"; with no such column the
\* run fails with the no-time-column error.
C6_ExactTimestampElseFirstTimeName ==
    (df # <<>> /\ AfterLocate) =>
        LET cols == df[1].columns
        IN  IF \E i \in 1..Len(cols) : IsExactTimestamp(cols[i])
            THEN time_column_name = cols[FirstIndex(cols, IsExactTimestamp)]
            ELSE IF \E i \in 1..Len(cols) : IsTimeName(cols[i])
            THEN time_column_name = cols[FirstIndex(cols, IsTimeName)]
            ELSE pc = "stopped" /\ errors = <<"no_time_column">>

\* a column named Timestamp is selected although a column named time
\* comes first
C6_Witness ==
    /\ df # <<>> /\ AfterLocate
    /\ df[1].columns[1] = n_time
    /\ time_column_name = n_Timestamp

\* C7: each role is mapped to the first column in table order that contains
\* the earliest candidate of the role that matches any column; a role is
\* absent exactly when none of its candidates matches any column.  Only the
\* column names enter.
C7_RoleMapIsFirstMatchOfEarliestCandidate ==
    (df # <<>> /\ pc \notin {"load", "detect"}) =>
        LET cols == df[1].columns
            Hit(cand, col) == contains(lower(cand), lower(col))
            MatchesSome(cand) == \E i \in 1..Len(cols) : Hit(cand, cols[i])
        IN  \A role \in RoleSet :
                LET cands == known_columns[role]
                IN  IF \E k \in 1..Len(cands) : MatchesSome(cands[k])
                    THEN LET k == CHOOSE k \in 1..Len(cands) :
                                      MatchesSome(cands[k])
                                      /\ \A h \in 1..(k - 1) : ~MatchesSome(cands[h])
                             i == CHOOSE i \in 1..Len(cols) :
                                      Hit(cands[k], cols[i])
                                      /\ \A j \in 1..(i - 1) :
                                            ~Hit(cands[k], cols[j])
                         IN  /\ role \in DOMAIN column_map
                             /\ column_map[role] = cols[i]
                    ELSE role \notin DOMAIN column_map

\* HR goes to heart_rate, found by the first candidate, although the column
\* HR comes first in the table; SmO2 is found without regard to case
C7_Witness ==
    /\ df # <<>> /\ pc \notin {"load", "detect"}
    /\ df[1].columns = <<n_HR, n_heart_rate, n_smo2_raw>>
    /\ column_map = ("HR" :> n_heart_rate) @@ ("SmO2" :> n_smo2_raw)

\* C8: every step but the last lasts its nominal time, the last one lasts
\* min(nominal, end - its start) > 0, the steps are numbered from 1; work >=
\* end - start gives one Trabalho step over [start, end]; work 5, rest 3
\* over [0, 20] gives the five steps of the scenario.
C8_StepDurations ==
    (LoopLeft /\ PositiveDurations /\ min_time < max_time) =>
        LET n == Len(steps)
        IN  /\ n >= 1
            /\ \A i \in 1..n :
                /\ steps[i].Step = i
                /\ i < n => steps[i].End - steps[i].Start = Nominal(i)
            /\ steps[n].End - steps[n].Start
                  = Min(Nominal(n), max_time - steps[n].Start)
            /\ steps[n].End - steps[n].Start > 0
            /\ work_seconds[1] >= max_time - min_time =>
                  steps = <<[Step |-> 1, Type |-> "Trabalho",
                             Start |-> min_time, End |-> max_time]>>
            /\ (work_seconds[1] = 5 /\ rest_seconds[1] = 3 /\ min_time = 0
                /\ max_time = 20) =>
                  steps = <<[Step |-> 1, Type |-> "Trabalho", Start |-> 0, End |-> 5],
                            [Step |-> 2, Type |-> "Descanso", Start |-> 5, End |-> 8],
                            [Step |-> 3, Type |-> "Trabalho", Start |-> 8, End |-> 13],
                            [Step |-> 4, Type |-> "Descanso", Start |-> 13, End |-> 16],
                            [Step |-> 5, Type |-> "Trabalho", Start |-> 16, End |-> 20]>>

\* the scenario: work 00:05, rest 00:03 over [0, 20], five steps
C8_Witness ==
    /\ pc = "done"
    /\ widgets.work_time = d_0005 /\ widgets.rest_time = d_0003
    /\ min_time = 0 /\ max_time = 20
    /\ Len(steps) = 5
    /\ steps[5].End - steps[5].Start = 4

\* 2024-01-02T00:00:0s
ScenarioCell(s) ==
    <<"2", "0", "2", "4", "-", "0", "1", "-", "0", "2", "T",
      "0", "0", ":", "0", "0", ":", "0", digit_char[s + 1]>>

\* C9: a time column of date-time text becomes, row by row and in row
\* order, the seconds since the earliest date-time of the column, so the
\* least value is 0 and 00:00:00 .. 00:00:09 become 0 .. 9; a numeric time
\* column is used as it is.
C9_ElapsedSinceEarliest ==
    AfterNormalize =>
        LET dt == df[1].dtype[time_column_name]
            cells == df[1].cells[time_column_name]
            at == uploaded_file.recorded
        IN  /\ Len(time_column) = df[1].nrows
            /\ dt = "object" =>
                /\ \A i \in 1..Len(time_column) :
                      time_column[i] = at[i] - SeqMin(at)
                /\ \E i \in 1..Len(time_column) : time_column[i] = 0
                /\ \A i \in 1..Len(time_column) : time_column[i] >= 0
                /\ cells = [s \in 1..10 |-> ScenarioCell(s - 1)] =>
                      time_column = [s \in 1..10 |-> (s - 1) * 10]
            /\ dt \in {"int64", "float64"} => time_column = cells

\* the scenario: ten date-times one second apart become 0 .. 9 seconds
C9_Witness ==
    /\ pc = "done"
    /\ df[1].dtype[time_column_name] = "object"
    /\ df[1].nrows = 10
    /\ df[1].cells[time_column_name][10] = ScenarioCell(9)
    /\ time_column = <<0, 10, 20, 30, 40, 50, 60, 70, 80, 90>>

\* C10: with the window left at its default every row lies inside it, so
\* the working table and the download hold all rows.
C10_DefaultWindowKeepsEveryRow ==
    (AfterWindow /\ widgets.slider = <<>>) =>
        /\ df_filtered.rows = [i \in 1..df[1].nrows |-> i]
        /\ csv # <<>> => csv[1].rows = [i \in 1..df[1].nrows |-> i]

\* for positive durations the table stays below MaxSteps rows and
\* current_time stays inside the window, so no bound cuts such a run
LoopEndsWithinBound ==
    (pc \in {"loop", "rest"} /\ PositiveDurations) =>
        /\ current_time < max_time => Len(steps) < MaxSteps
        /\ step_counter = Len(steps) + 1
        /\ current_time >= min_time

====
